---- MODULE Spec2Model ----
(***************************************************************************)
(* Ethereum wallet risk scoring (src/main.py).                             *)
(*                                                                         *)
(* main() walks wallet_addresses, turns each wallet's transaction list     *)
(* into a feature record (extract_features), builds one DataFrame from     *)
(* the records and hands it to calculate_risk_score, which min-max         *)
(* normalises the seven feature columns, forms the weighted sum, rescales  *)
(* it to [100, 1000] (500 when all sums agree), clips, truncates, stores   *)
(* the result in the "score" column of the frame it was given and returns  *)
(* the (wallet_id, score) columns.                                         *)
(*                                                                         *)
(* Numbers: the program computes in IEEE doubles.  The model computes in   *)
(* exact rationals n/d (reduced, d > 0) extended with NaN, so a rounding   *)
(* error of the float arithmetic is outside the model.  Money amounts are  *)
(* kept in units of 1e-10 ETH (1e8 wei), the size of the 1e-10 that        *)
(* extract_features adds to total_borrowed, so that this epsilon is the    *)
(* integer 1; min-max normalisation does not depend on the unit.           *)
(***************************************************************************)
EXTENDS Integers, Sequences, FiniteSets, TLC

VARIABLES
    pc,             \* position of the caller: "loop", "fetched", "collected", "df",
                    \* "scored", "done", and "resubmitted", "rescored" for a second call
    transactions,   \* the transaction list fetched for the wallet processed last
    features_list,  \* main's features_list: a sequence of dicts
    features_df,    \* the DataFrame handed to calculate_risk_score
    scaler,         \* calculate_risk_score's scaler once fitted: scale_ and min_ per column
    normalized_df,  \* calculate_risk_score's normalized_df
    scores,         \* calculate_risk_score's scores after the weighting loop
    min_score,      \* calculate_risk_score's min_score
    max_score,      \* calculate_risk_score's max_score
    result,         \* what the last call of calculate_risk_score returned or raised
    prev_pairs,     \* the (wallet_id, score) pairs of the call before the last one
    csv             \* rows written to wallet_risk_scores.csv

locals == <<scaler, normalized_df, scores, min_score, max_score>>

vars == <<pc, transactions, features_list, features_df, locals, result, prev_pairs, csv>>

(***************************************************************************)
(* Bounds of the model.                                                    *)
(***************************************************************************)
MaxWallets == 3     \* records in a batch
MaxTxs == 2         \* transactions fetched for one wallet

(***************************************************************************)
(* Floating point values: rationals and NaN.  The arithmetic is written as *)
(* functions, so that an argument is a value, computed once.               *)
(***************************************************************************)
Float == [nan : BOOLEAN, n : Int, d : Int]

NaN == [nan |-> TRUE, n |-> 0, d |-> 1]

\* Python's None inside a dict; pandas stores it as NaN in a numeric column.
None == [nan |-> TRUE, n |-> 0, d |-> 0]

Abs(x) == IF x < 0 THEN -x ELSE x

GCD[a \in Nat, b \in Nat] == IF b = 0 THEN a ELSE GCD[b, a % b]

Rat[n \in Int, d \in Int] ==
    LET s == IF d < 0 THEN -1 ELSE 1
        g == GCD[Abs(n), Abs(d)]
    IN  [nan |-> FALSE, n |-> (s * n) \div g, d |-> (s * d) \div g]

Num(k) == [nan |-> FALSE, n |-> k, d |-> 1]

Add[a \in Float, b \in Float] ==
    IF a.nan \/ b.nan THEN NaN ELSE Rat[a.n * b.d + b.n * a.d, a.d * b.d]

Sub[a \in Float, b \in Float] ==
    IF a.nan \/ b.nan THEN NaN ELSE Rat[a.n * b.d - b.n * a.d, a.d * b.d]

Mul[a \in Float, b \in Float] ==
    IF a.nan \/ b.nan THEN NaN ELSE Rat[a.n * b.n, a.d * b.d]

\* 0/0 is NaN; the program never divides another value by zero.
Div[a \in Float, b \in Float] ==
    IF a.nan \/ b.nan \/ b.n = 0 THEN NaN ELSE Rat[a.n * b.d, a.d * b.n]

\* Float comparisons: every comparison with NaN is false.
Less[a \in Float, b \in Float] == ~a.nan /\ ~b.nan /\ a.n * b.d < b.n * a.d

FEq[a \in Float, b \in Float] == ~a.nan /\ ~b.nan /\ a.n * b.d = b.n * a.d

\* int(x) of a finite float: truncation toward zero.
Trunc[a \in Float] == IF a.n >= 0 THEN a.n \div a.d ELSE -((-a.n) \div a.d)

Finite(S) == {x \in S : ~x.nan}

MinOf[S \in SUBSET Float] == CHOOSE m \in S : \A x \in S : ~Less[x, m]

MaxOf[S \in SUBSET Float] == CHOOSE m \in S : \A x \in S : ~Less[m, x]

\* numpy.nanmin / nanmax and pandas' Series.min / max: NaN is skipped, the
\* result is NaN only when nothing else is there.
NanMin[S \in SUBSET Float] == IF Finite(S) = {} THEN NaN ELSE MinOf[Finite(S)]

NanMax[S \in SUBSET Float] == IF Finite(S) = {} THEN NaN ELSE MaxOf[Finite(S)]

\* ndarray.min / max: NaN propagates.
NpMin[S \in SUBSET Float] == IF Finite(S) # S THEN NaN ELSE MinOf[S]

NpMax[S \in SUBSET Float] == IF Finite(S) # S THEN NaN ELSE MaxOf[S]

Range(s) == {s[i] : i \in DOMAIN s}

(***************************************************************************)
(* calculate_risk_score                                                    *)
(***************************************************************************)
feature_columns ==
    <<"borrow_count", "repayment_ratio", "collateral_ratio", "liquidation_count",
      "total_volume", "activity_level", "no_compound_activity">>

\* A slip of sign: liquidations raise the score.
weights_liquidation_rewarded ==
    [borrow_count         |-> Rat[-20, 100],
     repayment_ratio      |-> Rat[30, 100],
     collateral_ratio     |-> Rat[30, 100],
     liquidation_count    |-> Rat[25, 100],
     total_volume         |-> Rat[20, 100],
     activity_level       |-> Rat[25, 100],
     no_compound_activity |-> Rat[-10, 100]]

weights ==
    [borrow_count         |-> Rat[-20, 100],
     repayment_ratio      |-> Rat[30, 100],
     collateral_ratio     |-> Rat[30, 100],
     liquidation_count    |-> Rat[-25, 100],
     total_volume         |-> Rat[20, 100],
     activity_level       |-> Rat[25, 100],
     no_compound_activity |-> Rat[-10, 100]]

\* pd.DataFrame(list of dicts): the columns are the union of the keys, a key
\* a dict lacks and a None in a numeric column both become NaN; the strings
\* of wallet_id stay as they are.
ToCell(c, v) == IF c = "wallet_id" THEN v ELSE IF v = None THEN NaN ELSE v

DataFrame(list) ==
    LET cols == UNION {DOMAIN list[i] : i \in DOMAIN list}
    IN  [columns |-> cols,
         rows    |-> [i \in DOMAIN list |->
                        [c \in cols |-> IF c \in DOMAIN list[i]
                                        THEN ToCell(c, list[i][c]) ELSE NaN]]]

Column(df, c) == {df.rows[i][c] : i \in DOMAIN df.rows}

\* MinMaxScaler.fit on one column: data_min and data_max skip NaN, a zero
\* data_range is replaced by 1; scale_ = 1 / data_range, min_ = 0 - data_min * scale_.
HandleZeroRange(r) == IF FEq[r, Num(0)] THEN Num(1) ELSE r

Scale(data_min, data_max) == Div[Num(1), HandleZeroRange(Sub[data_max, data_min])]

FitColumn[data_min \in Float, data_max \in Float] ==
    [scale_ |-> Scale(data_min, data_max),
     min_   |-> Sub[Num(0), Mul[data_min, Scale(data_min, data_max)]]]

\* A slip: the minimum of a column read off the first row, as if the rows were sorted.
FitFromFirstRow(df) ==
    [c \in Range(feature_columns) |-> FitColumn[df.rows[1][c], NanMax[Column(df, c)]]]

Fit(df) ==
    [c \in Range(feature_columns) |-> FitColumn[NanMin[Column(df, c)], NanMax[Column(df, c)]]]

\* MinMaxScaler.transform: X * scale_ + min_
Transform(fitted, df) ==
    [i \in DOMAIN df.rows |->
        [c \in Range(feature_columns) |->
            Add[Mul[df.rows[i][c], fitted[c].scale_], fitted[c].min_]]]

\* scores = zeros; for feature, weight in weights.items(): scores += column * weight
WeightedSum(nrow) ==
    LET acc[k \in 0..Len(feature_columns)] ==
            IF k = 0 THEN Num(0)
            ELSE Add[acc[k - 1], Mul[nrow[feature_columns[k]], weights[feature_columns[k]]]]
    IN  acc[Len(feature_columns)]

RawScores(normalized) == [i \in DOMAIN normalized |-> WeightedSum(normalized[i])]

DefaultScore == 500
ScaleSpan == 900
ScaleShift == 100
ClipLow == 0
ClipHigh == 1000

\* A slip: the division without its guard.
RescaleUnguarded(raw, lo, hi) ==
    [i \in DOMAIN raw |->
        Add[Mul[Div[Sub[raw[i], lo], Sub[hi, lo]], Num(ScaleSpan)], Num(ScaleShift)]]

\* A slip: equal sums left at zero.
RescaleZeroDefault(raw, lo, hi) ==
    IF FEq[hi, lo]
    THEN [i \in DOMAIN raw |-> Num(0)]
    ELSE [i \in DOMAIN raw |->
            Add[Mul[Div[Sub[raw[i], lo], Sub[hi, lo]], Num(ScaleSpan)], Num(ScaleShift)]]

\* A slip: the sums stretched over the whole of [0, 1000].
RescaleFullRange(raw, lo, hi) ==
    IF FEq[hi, lo]
    THEN [i \in DOMAIN raw |-> Num(DefaultScore)]
    ELSE [i \in DOMAIN raw |->
            Mul[Div[Sub[raw[i], lo], Sub[hi, lo]], Num(ClipHigh)]]

\* (scores - min_score) / (max_score - min_score) * 900 + 100, or 500 for all
Rescale(raw, lo, hi) ==
    IF FEq[hi, lo]
    THEN [i \in DOMAIN raw |-> Num(DefaultScore)]
    ELSE [i \in DOMAIN raw |->
            Add[Mul[Div[Sub[raw[i], lo], Sub[hi, lo]], Num(ScaleSpan)], Num(ScaleShift)]]

\* np.clip(scores, 0, 1000); NaN stays NaN
Clip[x \in Float] ==
    IF x.nan THEN x
    ELSE IF Less[x, Num(ClipLow)] THEN Num(ClipLow)
    ELSE IF Less[Num(ClipHigh), x] THEN Num(ClipHigh)
    ELSE x

\* astype(int).  What the cast of NaN gives is left to the platform: the least
\* int64 (x86) or 0 (ARM).  IntMin stands for the least int64.
IntMin == -2147483647 - 1
NanCasts == {IntMin, 0}

AsInt(x, nan_int) == IF x.nan THEN nan_int ELSE Trunc[x]

\* `scores += Series` leaves scores an ndarray (min and max propagate NaN, the
\* cast of NaN does not raise) or makes it a Series (min and max skip NaN, the
\* cast of NaN raises), depending on the pandas at hand.
ArrayKinds == {"ndarray", "Series"}

\* features_df["score"] = ...
AssignScore(df, ints) ==
    [columns |-> df.columns \union {"score"},
     rows    |-> [i \in DOMAIN df.rows |->
                    [c \in df.columns \union {"score"} |->
                        IF c = "score" THEN ints[i] ELSE df.rows[i][c]]]]

\* A slip of alignment: the scores paired with the wallets in reverse.
SelectIdScoreMisaligned(df) ==
    [i \in DOMAIN df.rows |->
        [wallet_id |-> df.rows[i]["wallet_id"],
         score     |-> df.rows[Len(df.rows) + 1 - i]["score"]]]

\* features_df[["wallet_id", "score"]]
SelectIdScore(df) ==
    [i \in DOMAIN df.rows |->
        [wallet_id |-> df.rows[i]["wallet_id"], score |-> df.rows[i]["score"]]]

\* The locals of a call that has not come to assign them.
NoLocals ==
    /\ scaler' = <<>>
    /\ normalized_df' = <<>>
    /\ scores' = <<>>
    /\ min_score' = NaN
    /\ max_score' = NaN

Raised(error) == [status |-> error, rows |-> <<>>]

(***************************************************************************)
(* extract_features                                                        *)
(***************************************************************************)
COMPOUND_CONTRACTS ==
    [cDAI        |-> "0x5d3a536e4d6dbd6114cc1ead35777bab948e3643",
     cETH        |-> "0x4ddc2d193948926d02f9b1fe9e1daa0718270ed5",
     cUSDC       |-> "0x39aa39c021dfbae8fac545936693ac917d5e7563",
     cUSDT       |-> "0xf650c3d88d12be4e4267fcedd83c6e9a4e2c6d5e",
     Comptroller |-> "0x3d9819210a31b4961b30ef54be2aed79b9c9cd3b"]

BORROW_SIG == "0x69328dec"
REPAY_SIG == "0x0e6798a0"
MINT_SIG == "0x1241ab3f"
LIQUIDATE_SIG == "0x7db4f5c"

\* A transaction's input is represented by the bytes it starts with; no
\* signature is a prefix of another one.
StartsWith(input_data, sig) == input_data = sig

\* The 1e-10 added to total_borrowed, in units of 1e-10 ETH.
Epsilon == 1

CountRecord ==
    [borrow_count : Nat, repayment_count : Nat, total_borrowed : Int, total_repaid : Int,
     collateral_deposited : Int, liquidation_count : Nat, total_volume : Int, tx_count : Nat]

NoCounts ==
    [borrow_count |-> 0, repayment_count |-> 0, total_borrowed |-> 0,
     total_repaid |-> 0, collateral_deposited |-> 0, liquidation_count |-> 0,
     total_volume |-> 0, tx_count |-> 0]

\* What Etherscan may answer for a wallet (fetch_transactions gives the empty
\* list on every error).
TxTo == {COMPOUND_CONTRACTS.cDAI, "0x00000000219ab540356cbb839cbe05303d7705fa"}
TxInputs == {BORROW_SIG, REPAY_SIG, MINT_SIG, LIQUIDATE_SIG, "0x"}
TxValues == {0, 1}
Txs == [to : TxTo, input : TxInputs, value : TxValues]
TxLists == UNION {[1..k -> Txs] : k \in 0..MaxTxs}

\* One pass of the loop over the transactions.
Classify[acc \in CountRecord, tx \in Txs] ==
    LET seen == [acc EXCEPT !.total_volume = @ + tx.value, !.tx_count = @ + 1]
    IN  IF tx.to \notin Range(COMPOUND_CONTRACTS) THEN seen
        ELSE IF StartsWith(tx.input, BORROW_SIG)
             THEN [seen EXCEPT !.borrow_count = @ + 1, !.total_borrowed = @ + tx.value]
        ELSE IF StartsWith(tx.input, REPAY_SIG)
             THEN [seen EXCEPT !.repayment_count = @ + 1, !.total_repaid = @ + tx.value]
        ELSE IF StartsWith(tx.input, MINT_SIG)
             THEN [seen EXCEPT !.collateral_deposited = @ + tx.value]
        ELSE IF StartsWith(tx.input, LIQUIDATE_SIG)
             THEN [seen EXCEPT !.liquidation_count = @ + 1]
        ELSE seen

Counts(txs) ==
    LET after[k \in 0..Len(txs)] ==
            IF k = 0 THEN NoCounts ELSE Classify[after[k - 1], txs[k]]
    IN  after[Len(txs)]

\* The features computed from the counters, and the record returned.
Features[c \in CountRecord, wallet_address \in STRING] ==
    LET repayment_ratio  == IF c.total_borrowed > 0
                            THEN Rat[c.total_repaid, c.total_borrowed + Epsilon]
                            ELSE Num(1)
        collateral_ratio == IF c.total_borrowed > 0
                            THEN Rat[c.collateral_deposited, c.total_borrowed + Epsilon]
                            ELSE Num(1)
        activity_level   == Rat[c.tx_count, c.tx_count + 1]
    IN  IF c.borrow_count = 0 /\ c.repayment_count = 0 /\ c.collateral_deposited = 0
        THEN [wallet_id            |-> wallet_address,
              borrow_count         |-> Num(0),
              repayment_ratio      |-> Num(1),
              collateral_ratio     |-> Num(1),
              liquidation_count    |-> Num(0),
              total_volume         |-> Num(c.total_volume),
              activity_level       |-> activity_level,
              no_compound_activity |-> Num(1)]
        ELSE [wallet_id            |-> wallet_address,
              borrow_count         |-> Num(c.borrow_count),
              repayment_ratio      |-> repayment_ratio,
              collateral_ratio     |-> collateral_ratio,
              liquidation_count    |-> Num(c.liquidation_count),
              total_volume         |-> Num(c.total_volume),
              activity_level       |-> activity_level,
              no_compound_activity |-> Num(0)]

extract_features(txs, wallet_address) == Features[Counts(txs), wallet_address]

(***************************************************************************)
(* main                                                                    *)
(***************************************************************************)
\* The head of the list of wallet addresses.
AllWallets ==
    <<"0x0039f22efb07a647557c7c5d17854cfd6d489ef3",
      "0x06b51c6882b27cb05e712185531c1f74996dd988",
      "0x0795732aacc448030ef374374eaae57d2965c16c",
      "0x0aaa79f1a86bc8136cd0d1ca0d51964f4e3766f9",
      "0x0fe383e5abc200055a7f391f94a5f5d1f844b9ae">>

wallet_addresses == SubSeq(AllWallets, 1, MaxWallets)

NoResult == [status |-> "none", rows |-> <<>>]
NoFrame == [columns |-> {}, rows |-> <<>>]
NoPairs == {<<"none", 0>>}

PairSet(rows) == {<<rows[i].wallet_id, rows[i].score>> : i \in DOMAIN rows}

\* transactions = fetch_transactions(wallet)
FetchTransactions ==
    /\ pc = "loop"
    /\ \E txs \in TxLists : transactions' = txs
    /\ pc' = "fetched"
    /\ UNCHANGED <<features_list, features_df, locals, result, prev_pairs, csv>>

\* features = extract_features(transactions, wallet); features_list.append(features)
\* The list fetched is not used again: the next pass rebinds the name.
ExtractFeatures ==
    /\ pc = "fetched"
    /\ features_list' =
         Append(features_list,
                extract_features(transactions, wallet_addresses[Len(features_list) + 1]))
    /\ transactions' = <<>>
    /\ pc' = IF Len(features_list) + 1 = Len(wallet_addresses) THEN "collected" ELSE "loop"
    /\ UNCHANGED <<features_df, locals, result, prev_pairs, csv>>

\* features_df = pd.DataFrame(features_list)
CreateDataFrame ==
    /\ pc = "collected"
    /\ features_df' = DataFrame(features_list)
    /\ pc' = "df"
    /\ UNCHANGED <<transactions, features_list, locals, result, prev_pairs, csv>>

\* result_df = calculate_risk_score(features_df): the whole call.  A call that
\* raises leaves no result.
CalculateRiskScore ==
    /\ pc \in {"df", "resubmitted"}
    /\ IF ~(Range(feature_columns) \subseteq features_df.columns)
       THEN /\ result' = Raised("KeyError")
            /\ NoLocals
            /\ UNCHANGED features_df
       ELSE IF Len(features_df.rows) = 0
       THEN /\ result' = Raised("ValueError")
            /\ NoLocals
            /\ UNCHANGED features_df
       ELSE /\ scaler' = Fit(features_df)
            /\ normalized_df' = Transform(scaler', features_df)
            /\ scores' = RawScores(normalized_df')
            /\ \E kind \in ArrayKinds, nan_int \in NanCasts :
                 /\ min_score' = IF kind = "ndarray" THEN NpMin[Range(scores')]
                                                     ELSE NanMin[Range(scores')]
                 /\ max_score' = IF kind = "ndarray" THEN NpMax[Range(scores')]
                                                     ELSE NanMax[Range(scores')]
                 /\ \E clipped \in {[i \in DOMAIN scores' |->
                                       Clip[Rescale(scores', min_score', max_score')[i]]]} :
                      IF kind = "Series" /\ \E i \in DOMAIN clipped : clipped[i].nan
                      THEN /\ result' = Raised("ValueError")
                           /\ UNCHANGED features_df
                      ELSE /\ features_df' =
                                AssignScore(features_df,
                                            [i \in DOMAIN clipped |-> AsInt(clipped[i], nan_int)])
                           /\ result' = IF "wallet_id" \in features_df.columns
                                        THEN [status |-> "ok", rows |-> SelectIdScore(features_df')]
                                        ELSE Raised("KeyError")
    /\ prev_pairs' = IF pc = "df" THEN NoPairs ELSE PairSet(result.rows)
    /\ pc' = IF pc = "df" THEN "scored" ELSE "rescored"
    /\ UNCHANGED <<transactions, features_list, csv>>

\* result_df.to_csv("wallet_risk_scores.csv", index=False)
SaveCsv ==
    /\ pc = "scored"
    /\ result.status = "ok"
    /\ csv' = result.rows
    /\ pc' = "done"
    /\ UNCHANGED <<transactions, features_list, features_df, locals, result, prev_pairs>>

\* A caller hands the frame in again, its rows in another order (or the same).
RowOrders(n) == {p \in [1..n -> 1..n] : \A i, j \in 1..n : p[i] = p[j] => i = j}

Resubmit ==
    /\ pc = "scored"
    /\ \E p \in RowOrders(Len(features_df.rows)) :
         features_df' = [features_df EXCEPT
                           !.rows = [i \in DOMAIN features_df.rows |-> features_df.rows[p[i]]]]
    /\ pc' = "resubmitted"
    /\ UNCHANGED <<transactions, features_list, locals, result, prev_pairs, csv>>

NotCalled ==
    /\ features_df = NoFrame
    /\ scaler = <<>>
    /\ normalized_df = <<>>
    /\ scores = <<>>
    /\ min_score = NaN
    /\ max_score = NaN
    /\ result = NoResult
    /\ prev_pairs = NoPairs
    /\ csv = <<>>

InitMain ==
    /\ pc = "loop"
    /\ transactions = <<>>
    /\ features_list = <<>>
    /\ NotCalled

NextMain == FetchTransactions \/ ExtractFeatures \/ CreateDataFrame
            \/ CalculateRiskScore \/ SaveCsv

SpecMain == InitMain /\ [][NextMain]_vars

(***************************************************************************)
(* Scoring a batch of arbitrary valid records.  The records are those of   *)
(* a wallet without transactions with at most one feature moved by one of  *)
(* Deltas; wallet_id is opaque to the scorer, so the batches start with    *)
(* their records in the order of Profiles and reach the other orders by    *)
(* Resubmit.                                                               *)
(***************************************************************************)
Deltas == <<2, -1>>

NumProfiles == 1 + Len(feature_columns) * Len(Deltas)

Profile(k, wallet_address) ==
    LET base == extract_features(<<>>, wallet_address)
        c    == feature_columns[((k - 1) % Len(feature_columns)) + 1]
        dl   == Deltas[((k - 1) \div Len(feature_columns)) + 1]
    IN  IF k = 0 THEN base ELSE [base EXCEPT ![c] = Add[@, Num(dl)]]

InitScore ==
    /\ pc = "collected"
    /\ transactions = <<>>
    /\ \E n \in 1..MaxWallets : \E f \in [1..n -> 0..(NumProfiles - 1)] :
         /\ \A i \in 1..(n - 1) : f[i] <= f[i + 1]
         /\ features_list = [i \in 1..n |-> Profile(f[i], wallet_addresses[i])]
    /\ NotCalled

NextScore == CreateDataFrame \/ CalculateRiskScore \/ Resubmit

SpecScore == InitScore /\ [][NextScore]_vars

(***************************************************************************)
(* Scoring a batch the scorer is meant to reject, once.  In the first      *)
(* specification the records are complete and any two of them may carry    *)
(* the same wallet_id; in the second the wallet_ids differ and a record    *)
(* may carry None in a numeric field or lack one (the empty batch is       *)
(* among them).                                                            *)
(***************************************************************************)
NextOnce == CreateDataFrame \/ CalculateRiskScore

DuplicateProfiles == {0, 4, 8}

InitDuplicate ==
    /\ pc = "collected"
    /\ transactions = <<>>
    /\ \E n \in 1..MaxWallets :
         \E ids \in [1..n -> Range(wallet_addresses)], f \in [1..n -> DuplicateProfiles] :
            features_list = [i \in 1..n |-> Profile(f[i], ids[i])]
    /\ NotCalled

SpecDuplicate == InitDuplicate /\ [][NextOnce]_vars

Without(rec, c) == [k \in DOMAIN rec \ {c} |-> rec[k]]

Dicts(wallet_address) ==
    {Profile(0, wallet_address),
     Profile(4, wallet_address),
     [Profile(0, wallet_address) EXCEPT !["borrow_count"] = None],
     [Profile(4, wallet_address) EXCEPT !["liquidation_count"] = None],
     Without(Profile(0, wallet_address), "total_volume"),
     Without(Profile(4, wallet_address), "activity_level")}

InitMissing ==
    /\ pc = "collected"
    /\ transactions = <<>>
    /\ \E n \in 0..MaxWallets :
         \E list \in [1..n -> UNION {Dicts(w) : w \in Range(wallet_addresses)}] :
            /\ \A i \in 1..n : list[i]["wallet_id"] = wallet_addresses[i]
            /\ features_list = list
    /\ NotCalled

SpecMissing == InitMissing /\ [][NextOnce]_vars

(***************************************************************************)
(* The claims.                                                             *)
(***************************************************************************)
Scored == pc \in {"scored", "rescored"}

WalletIds(rows) == {rows[i]["wallet_id"] : i \in DOMAIN rows}

\* The score of a record as the design states it: every column normalised to
\* (v - min) / (max - min), or to 0 when the column has one value; the weighted
\* sum; 500 when all sums agree and else the sum moved linearly to [100, 1000]
\* and truncated.
Tabulated(f) == CHOOSE g \in {f} : g = f

DesignBounds(batch) ==
    Tabulated([c \in Range(feature_columns) |->
                  [lo |-> MinOf[{batch[i][c] : i \in DOMAIN batch}],
                   hi |-> MaxOf[{batch[i][c] : i \in DOMAIN batch}]]])

DesignNormalized(v, lo, hi) ==
    IF FEq[hi, lo] THEN Num(0) ELSE Div[Sub[v, lo], Sub[hi, lo]]

DesignRaw(rec, bounds) ==
    LET acc[k \in 0..Len(feature_columns)] ==
            IF k = 0 THEN Num(0)
            ELSE Add[acc[k - 1],
                     Mul[weights[feature_columns[k]],
                         DesignNormalized(rec[feature_columns[k]],
                                          bounds[feature_columns[k]].lo,
                                          bounds[feature_columns[k]].hi)]]
    IN  acc[Len(feature_columns)]

DesignRaws(batch) ==
    CHOOSE raws \in {Tabulated([i \in DOMAIN batch |-> DesignRaw(batch[i], bounds)]) :
                        bounds \in {DesignBounds(batch)}} : TRUE

DesignScore(raw, lo, hi) ==
    IF FEq[hi, lo] THEN DefaultScore
    ELSE Trunc[Add[Mul[Div[Sub[raw, lo], Sub[hi, lo]], Num(ScaleSpan)], Num(ScaleShift)]]

DesignScores(batch) ==
    CHOOSE ds \in {Tabulated([i \in DOMAIN batch |-> DesignScore(raws[i], lo, hi)]) :
                      raws \in {DesignRaws(batch)},
                      lo \in {MinOf[Range(DesignRaws(batch))]},
                      hi \in {MaxOf[Range(DesignRaws(batch))]}} : TRUE

\* C1: a valid batch of N records with distinct wallet_id comes back as N
\* (wallet_id, score) records, the wallet_ids returned are those handed in, and
\* the score beside a wallet_id is the score of the record carrying it.
C1_OneScorePerWallet ==
    Scored =>
        /\ result.status = "ok"
        /\ Len(result.rows) = Len(features_list)
        /\ WalletIds(result.rows) = WalletIds(features_list)
        /\ \E design \in {DesignScores(features_list)} :
              \A i \in DOMAIN result.rows : \A j \in DOMAIN features_list :
                  features_list[j]["wallet_id"] = result.rows[i]["wallet_id"]
                      => result.rows[i].score = design[j]

C1_Witness ==
    /\ pc = "rescored"
    /\ Len(result.rows) >= 3
    /\ result.rows[1]["wallet_id"] # features_list[1]["wallet_id"]
    /\ Cardinality({result.rows[i].score : i \in DOMAIN result.rows}) >= 3

\* C2: every score returned for a valid batch, negative feature values
\* included, is an integer from 0 to 1000.
C2_ScoreInRange ==
    Scored => \A i \in DOMAIN result.rows : result.rows[i].score \in ClipLow..ClipHigh

C2_Witness ==
    /\ Scored
    /\ \E i \in DOMAIN features_list : \E c \in Range(feature_columns) :
          features_list[i][c].n < 0
    /\ \E i \in DOMAIN result.rows :
          /\ result.rows[i].score > ScaleShift
          /\ result.rows[i].score < ClipHigh
          /\ result.rows[i].score # DefaultScore

SameFeatures(r1, r2) == \A c \in Range(feature_columns) : r1[c] = r2[c]

\* C3: when every record of the batch carries the same seven feature values
\* (a batch of one record among them), every wallet scores exactly 500.
C3_IdenticalRecordsScore500 ==
    (Scored /\ \A i, j \in DOMAIN features_list : SameFeatures(features_list[i], features_list[j]))
        => /\ result.status = "ok"
           /\ Len(result.rows) = Len(features_list)
           /\ \A i \in DOMAIN result.rows : result.rows[i].score = 500

C3_Witness ==
    /\ Scored
    /\ Len(features_list) >= 2
    /\ \A i, j \in DOMAIN features_list : SameFeatures(features_list[i], features_list[j])
    /\ \A i \in DOMAIN result.rows : result.rows[i].score = 500

LiquidationPair(a, b) ==
    /\ \A c \in Range(feature_columns) \ {"liquidation_count"} :
          features_df.rows[a][c] = features_df.rows[b][c]
    /\ Less[features_df.rows[a]["liquidation_count"], features_df.rows[b]["liquidation_count"]]

\* C6: of two wallets of a batch that agree in the six other features, the one
\* with more liquidations scores no higher, whatever else is in the batch.
C6_MoreLiquidationsNoHigherScore ==
    Scored => \A a, b \in DOMAIN result.rows :
                 LiquidationPair(a, b) => result.rows[b].score <= result.rows[a].score

C6_Witness ==
    /\ Scored
    /\ \E a, b, o \in DOMAIN result.rows :
          /\ LiquidationPair(a, b)
          /\ result.rows[b].score < result.rows[a].score
          /\ result.rows[a].score < result.rows[o].score

\* C7: scoring the batch again, its records in any order, gives the same set
\* of (wallet_id, score) pairs as the call before.
C7_SameScoresInAnyOrder ==
    pc = "rescored" => result.status = "ok" /\ PairSet(result.rows) = prev_pairs

C7_Witness ==
    /\ pc = "rescored"
    /\ PairSet(result.rows) = prev_pairs
    /\ \E i \in DOMAIN result.rows :
          result.rows[i]["wallet_id"] # features_list[i]["wallet_id"]
    /\ Cardinality({result.rows[i].score : i \in DOMAIN result.rows}) >= 3

\* C8: when the weighted sums of a valid batch are not all equal, a wallet's
\* score is (sum - min) / (max - min) * 900 + 100 truncated, min and max being
\* the least and the greatest sum of the batch: the wallets at the minimum get
\* 100, those at the maximum 1000, and no wallet gets less than 100.
C8_LinearRescale ==
    (Scored /\ \E i, j \in DOMAIN scores : ~FEq[scores[i], scores[j]]) =>
        /\ min_score = MinOf[Range(scores)]
        /\ max_score = MaxOf[Range(scores)]
        /\ \A i \in DOMAIN result.rows :
              /\ result.rows[i].score =
                    Trunc[Add[Mul[Div[Sub[scores[i], min_score], Sub[max_score, min_score]],
                                  Num(900)], Num(100)]]
              /\ scores[i] = min_score => result.rows[i].score = 100
              /\ scores[i] = max_score => result.rows[i].score = 1000
              /\ result.rows[i].score >= 100

C8_Witness ==
    /\ Scored
    /\ \E i, j, k \in DOMAIN result.rows :
          /\ result.rows[i].score = 100
          /\ result.rows[j].score = 1000
          /\ result.rows[k].score \notin {100, 1000}
          /\ Trunc[Add[Mul[Div[Sub[scores[k], min_score], Sub[max_score, min_score]],
                           Num(900)], Num(100)]] = result.rows[k].score
          /\ Add[Mul[Div[Sub[scores[k], min_score], Sub[max_score, min_score]],
                     Num(900)], Num(100)].d > 1

\* A call that rejects its batch: it raises and leaves no score behind.
Rejected ==
    /\ result.status \notin {"none", "ok"}
    /\ result.rows = <<>>
    /\ "score" \notin features_df.columns

\* C4: a batch with two records of the same wallet_id makes the call fail with
\* an error for the invalid input and return no score.
C4_DuplicateWalletRejected ==
    (/\ pc = "scored"
     /\ \E i, j \in DOMAIN features_list :
           i # j /\ features_list[i]["wallet_id"] = features_list[j]["wallet_id"])
        => Rejected

\* C5: a batch with a record that lacks one of the seven numeric fields, or
\* carries None in one, makes the call fail with an error for the invalid input
\* and return no score.
C5_MissingFieldRejected ==
    (/\ pc = "scored"
     /\ \E i \in DOMAIN features_list : \E c \in Range(feature_columns) :
           c \notin DOMAIN features_list[i] \/ features_list[i][c] = None)
        => Rejected

\* C9: a call leaves the collection of feature records it was given as it was:
\* the same records, the same fields, the same values.
C9_InputUnchanged ==
    [][(pc \in {"df", "resubmitted"}) => (features_df' = features_df)]_vars

LiquidationEvents(txs) ==
    Cardinality({k \in DOMAIN txs :
                    /\ txs[k].to \in Range(COMPOUND_CONTRACTS)
                    /\ StartsWith(txs[k].input, LIQUIDATE_SIG)})

\* C10: the liquidation_count of the record extract_features returns is the
\* number of the wallet's liquidation events, the transactions sent to a
\* Compound contract with the liquidate signature, also for a wallet without
\* borrow, repayment and collateral.
C10_LiquidationCountIsEventCount ==
    [][(pc = "fetched" /\ pc' # "fetched") =>
          (features_list'[Len(features_list')]["liquidation_count"]
              = Num(LiquidationEvents(transactions)))]_vars

====
